---- MODULE Spec2Model ----
(***************************************************************************)
(* A model of youtube_to_sheets.py: the YouTubeChannelCollector batch job. *)
(* One run loads the known channel ids from the sheet, walks the popular-  *)
(* video chart of every configured category page by page, fetches the      *)
(* details of the unseen channels in chunks, appends the channels at or    *)
(* above the subscriber threshold to the sheet and posts a notification.   *)
(*                                                                         *)
(* The program is sequential; pc is the position of its single thread.     *)
(* Every remote call (YouTube, Sheets, Slack) is one step that either      *)
(* answers or raises.  The remote data (videos, the channel catalogue) is  *)
(* fixed for a behaviour; which calls raise is chosen step by step.        *)
(***************************************************************************)
EXTENDS Integers, Sequences, FiniteSets, TLC

(***************************************************************************)
(* Bounds of the model.                                                    *)
(***************************************************************************)
\* channels listed by the remote charts
MaxChannels == 2
\* categories in config/category_ids.json
MaxCategories == 2
\* pages of one chart (full runs)
MaxPages == 2
\* occupied rows of the sheet before the run
MaxStoreRows == 3
\* pages a chart may have beyond daily_limit
MaxExtraPages == 2
\* identifiers given to one get_channel_details call
MaxIds == 101
\* characters of a description given to extract_email
MaxText == 7
\* runs of the job one after another on the same sheet
MaxRuns == 2

(***************************************************************************)
(* Program constants.                                                      *)
(***************************************************************************)
daily_limit == 10000
batch_size == 50
MIN_SUBSCRIBER_COUNT == 100000
\* next_page_token = None; page tokens are 2, 3, ...
None == 0

Min(a, b) == IF a <= b THEN a ELSE b

(***************************************************************************)
(* Text is a tuple of one-character strings where the code looks inside it *)
(* (descriptions, e-mail addresses, numbers sent as text by the API).      *)
(***************************************************************************)
Lower == {"a","b","c","d","e","f","g","h","i","j","k","l","m",
          "n","o","p","q","r","s","t","u","v","w","x","y","z"}
Upper == {"A","B","C","D","E","F","G","H","I","J","K","L","M",
          "N","O","P","Q","R","S","T","U","V","W","X","Y","Z"}
Digit == {"0","1","2","3","4","5","6","7","8","9"}
Alpha == Lower \cup Upper
LocalChars == Alpha \cup Digit \cup {".", "_", "%", "+", "-"}
DomainChars == Alpha \cup Digit \cup {".", "-"}

DigitChar == <<"0","1","2","3","4","5","6","7","8","9">>
DigitValue(c) == (CHOOSE k \in 1..10 : DigitChar[k] = c) - 1

\* str(n) for n >= 0, as the API sends a statistic
RECURSIVE ToDigits(_)
ToDigits(n) ==
    IF n < 10 THEN <<DigitChar[n + 1]>>
    ELSE Append(ToDigits(n \div 10), DigitChar[(n % 10) + 1])

\* int(s) raises ValueError unless s is a non-empty run of digits
IntRaises(s) == Len(s) = 0 \/ \E k \in 1..Len(s) : s[k] \notin Digit

RECURSIVE ParseInt(_)
ParseInt(s) ==
    IF Len(s) = 0 THEN 0
    ELSE 10 * ParseInt(SubSeq(s, 1, Len(s) - 1)) + DigitValue(s[Len(s)])

\* the sentinel of extract_email, a four-character Japanese text ("retrieval
\* failed"), spelled here in ASCII
EXTRACT_FAILED == <<"s", "h", "u", "t", "o", "k", "u", " ", "s", "h", "i", "p", "p", "a", "i">>

\* length of the longest run of characters of class at d[s], d[s+1], ...
RECURSIVE RunLen(_, _, _)
RunLen(d, s, class) ==
    IF s > Len(d) \/ d[s] \notin class THEN 0
    ELSE 1 + RunLen(d, s + 1, class)

(***************************************************************************)
(* The pattern of extract_email is the raw string                          *)
(*   [a-zA-Z0-9._%+-]+@[a-zA-Z0-9.-]+\\.[a-zA-Z]{2,}                        *)
(* in which \\ is a literal backslash and the dot after it is any          *)
(* character but a newline.  No class overlaps the literal that follows    *)
(* it, so a match that starts at s is unique: MatchEnd is the position     *)
(* after it, 0 when there is none.                                         *)
(***************************************************************************)
MatchEnd(d, s) ==
    LET at == s + RunLen(d, s, LocalChars)
        bs == at + 1 + RunLen(d, at + 1, DomainChars)
        tld == RunLen(d, bs + 2, Alpha)
    IN  IF /\ at > s
           /\ at <= Len(d) /\ d[at] = "@"
           /\ bs > at + 1
           /\ bs <= Len(d) /\ d[bs] = "\\"
           /\ bs + 1 <= Len(d) /\ d[bs + 1] # "\n"
           /\ tld >= 2
        THEN bs + 2 + tld
        ELSE 0

extract_email(description) ==
    IF description = <<>> THEN EXTRACT_FAILED
    ELSE LET starts == {s \in 1..Len(description) : MatchEnd(description, s) # 0}
         IN  IF starts = {} THEN EXTRACT_FAILED
             ELSE LET s == CHOOSE m \in starts : \A o \in starts : m <= o
                  IN  SubSeq(description, s, MatchEnd(description, s) - 1)

(***************************************************************************)
(* The remote channel catalogue: what channels().list answers for the      *)
(* channel with number n.  The subscriber counts sit on both sides of the  *)
(* threshold and on it; a hidden count is absent from the statistics.      *)
(***************************************************************************)
ChannelId(n) == "UC" \o ToString(n)
Channels == {ChannelId(n) : n \in 1..MaxChannels}
ChannelIds == [n \in 1..(MaxIds + MaxChannels) |-> ChannelId(n)]
ChannelNumber(ch) == CHOOSE n \in DOMAIN ChannelIds : ChannelIds[n] = ch

Descriptions ==
    << <<"m", "a", "i", "l", " ", "a", "@", "b", ".", "j", "p">>,
       <<>>,
       <<"a", ".", "b", "@", "c", "\\", ".", "j", "p", "!">> >>

RemoteStatistics(n) ==
    LET rest == [viewCount |-> ToDigits(1000 * n), videoCount |-> ToDigits(n)]
    IN  CASE n % 4 = 1 -> [subscriberCount |-> ToDigits(MIN_SUBSCRIBER_COUNT)] @@ rest
          [] n % 4 = 2 -> [subscriberCount |-> ToDigits(MIN_SUBSCRIBER_COUNT - 1)] @@ rest
          [] n % 4 = 3 -> rest
          [] OTHER     -> [subscriberCount |-> ToDigits(MIN_SUBSCRIBER_COUNT + 1)] @@ rest

RemoteChannel(ch) ==
    LET n == ChannelNumber(ch)
    IN  [id |-> ch,
         snippet |-> [title |-> "title of " \o ch,
                      description |-> Descriptions[(n % 3) + 1]],
         statistics |-> RemoteStatistics(n)]

\* an item whose statistics part is missing: item['statistics'] raises KeyError
Malformed(item) == [id |-> item.id, snippet |-> item.snippet]

(***************************************************************************)
(* The sheet.  A row is a tuple of cells, <<>> for a row with nothing in   *)
(* column A.  header_map is the dict of write_to_spreadsheet, in insertion *)
(* order: <<key, label>>; the labels, Japanese in the source, are given    *)
(* in English.                                                             *)
(***************************************************************************)
header_map ==
    << <<"channel_id", "Channel ID">>,
       <<"title", "Channel name">>,
       <<"description", "Description">>,
       <<"email", "Mail address">>,
       <<"subscriber_count", "Subscribers">>,
       <<"view_count", "Views">>,
       <<"video_count", "Videos">>,
       <<"fetched_at", "Fetched at">> >>

header_row == [j \in 1..Len(header_map) |-> header_map[j][2]]

\* RowOf with the title in column A and the identifier in column B
RowOfTitleFirst(d) ==
    [j \in 1..Len(header_map) |->
        d[header_map[IF j = 1 THEN 2 ELSE IF j = 2 THEN 1 ELSE j][1]]]

\* row = [d.get(key, '') for key in header_map.keys()]
RowOf(d) == [j \in 1..Len(header_map) |-> d[header_map[j][1]]]

ValuesOf(data) == [k \in 1..Len(data) |-> RowOf(data[k])]

(***************************************************************************)
(* State.                                                                  *)
(***************************************************************************)
VARIABLES
    sheet,              \* the rows of the target sheet
    config,             \* config/category_ids.json as the loader finds it
    videos,             \* remote: category id -> its mostPopular chart
    now,                \* the clock; time.sleep(1) advances it
    pc,                 \* position of the run
    existing_channels,  \* self.existing_channels
    categories,         \* run: categories
    category_no,        \* run: position of the for loop in categories
    page_channel_ids,   \* get_popular_videos: channel_ids (a set)
    next_page_token,    \* get_popular_videos: next_page_token
    total_quota,        \* get_popular_videos: total_quota
    channel_ids,        \* run / get_channel_details: channel_ids (a list)
    batch_i,            \* get_channel_details: i, the start of the batch
    channels,           \* get_channel_details: channels
    all_new_channels,   \* run: all_new_channels
    last_row,           \* write_to_spreadsheet: last_row
    \* history variables: what has been done so far
    enriched,           \* every id ever passed to get_channel_details
    history,            \* per category position: the calls made for it
    chunk_requests,     \* current get_channel_details call: requests per chunk
    chunk_failed,       \* current get_channel_details call: the chunks that
                        \* raised, each with what raised ("request" or "item")
    detail_calls,       \* current get_channel_details call: per request, the
                        \* ids asked for, the ids of the items answered and
                        \* the time of the request
    calls,              \* number of calls of each store / notification operation
    read_rows,          \* rows the A:A read of write_to_spreadsheet returned
    sheet_before,       \* the sheet when write_to_spreadsheet was entered
    notification,       \* what send_slack_notification was given and did
    description,        \* extract_email: description
    email,              \* extract_email: the value returned
    earlier             \* the runs of the job that ended before this one,
                        \* each with the sheet it left and the ids it appended

vars == <<sheet, config, videos, now, pc, existing_channels, categories,
          category_no, page_channel_ids, next_page_token, total_quota,
          channel_ids, batch_i, channels, all_new_channels, last_row,
          enriched, history, chunk_requests, chunk_failed, detail_calls, calls,
          read_rows, sheet_before, notification, description, email, earlier>>

remote == <<config, videos>>
pager == <<page_channel_ids, next_page_token, total_quota>>
enricher == <<channel_ids, batch_i, channels, chunk_requests, chunk_failed,
              detail_calls>>
writer == <<last_row, read_rows, sheet_before>>
\* what a run of the job leaves alone
outside == <<description, email, earlier>>

(***************************************************************************)
(* Records of get_channel_details (lines 168-183).                         *)
(***************************************************************************)
StatRaises(stats, key) == key \in DOMAIN stats /\ IntRaises(stats[key])

\* int(item['statistics'].get(key, 0))
StatInt(stats, key) == IF key \in DOMAIN stats THEN ParseInt(stats[key]) ELSE 0

\* BelowThreshold with <= for < in the test of line 171
BelowOrAtThreshold(subscriber_count) == subscriber_count <= MIN_SUBSCRIBER_COUNT

\* line 171
BelowThreshold(subscriber_count) == subscriber_count < MIN_SUBSCRIBER_COUNT

ChannelRecord(item, t) ==
    [channel_id |-> item.id,
     title |-> item.snippet.title,
     description |-> item.snippet.description,
     email |-> extract_email(item.snippet.description),
     subscriber_count |-> StatInt(item.statistics, "subscriberCount"),
     view_count |-> StatInt(item.statistics, "viewCount"),
     video_count |-> StatInt(item.statistics, "videoCount"),
     fetched_at |-> t]

\* the item makes the loop body raise (KeyError or ValueError)
ItemRaises(item) ==
    \/ "snippet" \notin DOMAIN item
    \/ "statistics" \notin DOMAIN item
    \/ StatRaises(item.statistics, "subscriberCount")
    \/ /\ ~BelowThreshold(StatInt(item.statistics, "subscriberCount"))
       /\ \/ "id" \notin DOMAIN item
          \/ "title" \notin DOMAIN item.snippet
          \/ StatRaises(item.statistics, "viewCount")
          \/ StatRaises(item.statistics, "videoCount")

\* the for loop over response['items']: the records appended to acc, and
\* whether an item raised (the loop stops there, acc keeps what it has)
RECURSIVE ProcessItems(_, _, _)
ProcessItems(items, acc, t) ==
    IF items = <<>> THEN [channels |-> acc, raised |-> FALSE]
    ELSE LET item == Head(items)
         IN  IF ItemRaises(item) THEN [channels |-> acc, raised |-> TRUE]
             ELSE IF BelowThreshold(StatInt(item.statistics, "subscriberCount"))
                  THEN ProcessItems(Tail(items), acc, t)
                  ELSE ProcessItems(Tail(items), Append(acc, ChannelRecord(item, t)), t)

(***************************************************************************)
(* The remote charts.  A chart has `pages` pages (every page has a         *)
(* continuation token when it is endless); page p lists the channels       *)
(* cycle[((p - 1) % Len(cycle)) + 1].                                      *)
(***************************************************************************)
CategoryIds == 1..MaxCategories

PageItems(chart, p) == chart.cycle[((p - 1) % Len(chart.cycle)) + 1]
PageToken(chart, p) == IF chart.endless \/ p < chart.pages THEN p + 1 ELSE None

\* the charts of the first category: every page lists the first n channels,
\* or the pages list the first channel and the other channels in turn
Cycles ==
    {<<{ChannelId(k) : k \in 1..n}>> : n \in 0..MaxChannels}
        \cup {<<{ChannelId(1)}, Channels \ {ChannelId(1)}>>}
Charts == [pages : 1..MaxPages, endless : {FALSE}, cycle : Cycles]

\* the chart of a later category lists the channels k places further on
Shifted(chart, k) ==
    LET move(ch) == ChannelId(((ChannelNumber(ch) - 1 + k) % MaxChannels) + 1)
    IN  [chart EXCEPT !.cycle =
            [j \in 1..Len(chart.cycle) |-> {move(ch) : ch \in chart.cycle[j]}]]
VideoCharts == {[c \in CategoryIds |-> Shifted(chart, c - 1)] : chart \in Charts}

(***************************************************************************)
(* The configuration file: absent, not JSON, or a JSON object.  A category *)
(* is a dict with the keys id and name; one entry may lack its name.       *)
(***************************************************************************)
Category(c) == [id |-> c, name |-> "category " \o ToString(c)]
\* n categories; with bad, the last of them lacks its name
CategoryList(n, bad) ==
    [k \in 1..n |-> IF bad /\ k = n THEN [id |-> k] ELSE Category(k)]
ConfigFiles ==
    {[status |-> "absent"], [status |-> "malformed"],
     [status |-> "ok", data |-> [regionCode |-> "JP"]]}
        \cup {[status |-> "ok", data |-> [categories |-> CategoryList(n, bad)]] :
                n \in 0..MaxCategories, bad \in BOOLEAN}

(***************************************************************************)
(* Sheets a run may find: empty, or the header and the rows of the first   *)
(* channels, written by earlier runs; a row above the last one may have    *)
(* been cleared since.                                                     *)
(***************************************************************************)
StoredRow(ch) == RowOf(ChannelRecord(RemoteChannel(ch), 0))
Stored(n, cleared) ==
    <<header_row>> \o
        [k \in 1..n |-> IF k = cleared THEN <<>> ELSE StoredRow(ChannelId(k))]
StoreSamples ==
    {<<>>} \cup
    {s \in {Stored(n, cleared) : n \in 0..Min(MaxStoreRows - 1, MaxChannels),
                                  cleared \in 0..(MaxStoreRows - 2)} :
        s[Len(s)] # <<>>}

\* len(result.get('values', [])) of a read of column A
OccupiedRows(s) ==
    IF \A r \in 1..Len(s) : s[r] = <<>> THEN 0
    ELSE CHOOSE r \in 1..Len(s) : s[r] # <<>> /\ \A q \in (r + 1)..Len(s) : s[q] = <<>>

NoCalls == [load |-> 0, loaded |-> 0, write |-> 0, get |-> 0, update |-> 0, append |-> 0,
            appended |-> 0, notify |-> 0, post |-> 0]
NoHistory == [discovery |-> "none", pages |-> 0, quota |-> 0, tokenless |-> 0,
              found |-> {}, details |-> "none", requests |-> 0]

InitLocals ==
    /\ now = 1
    /\ existing_channels = {}
    /\ categories = <<>>
    /\ category_no = 0
    /\ page_channel_ids = {}
    /\ next_page_token = None
    /\ total_quota = 0
    /\ channel_ids = <<>>
    /\ batch_i = 0
    /\ channels = <<>>
    /\ all_new_channels = <<>>
    /\ last_row = 0
    /\ enriched = {}
    /\ history = <<>>
    /\ chunk_requests = <<>>
    /\ chunk_failed = <<>>
    /\ detail_calls = <<>>
    /\ calls = NoCalls
    /\ read_rows = -1
    /\ sheet_before = <<>>
    /\ notification = <<>>

Init ==
    /\ sheet \in StoreSamples
    /\ config \in ConfigFiles
    /\ videos \in VideoCharts
    /\ pc = "construct"
    /\ InitLocals
    /\ description = <<>>
    /\ email = <<>>
    /\ earlier = <<>>

Range(f) == {f[k] : k \in DOMAIN f}

\* list(a_set): the elements in an order the code does not control
ListsOf(S) ==
    {f \in [1..Cardinality(S) -> S] : \A a, b \in DOMAIN f : a # b => f[a] # f[b]}

(***************************************************************************)
(* __init__ (line 46) and _load_existing_channel_ids (lines 73-93).        *)
(***************************************************************************)
\* ExistingIds reading the range A:A, the header row included
ExistingIdsWithHeader(s) == {s[r][1] : r \in {q \in 1..Len(s) : s[q] # <<>>}}

\* {row[0] for row in values if row} over the rows of A2:A
ExistingIds(s) == {s[r][1] : r \in {q \in 2..Len(s) : s[q] # <<>>}}

LoadExistingChannelIds ==
    /\ pc = "construct"
    /\ existing_channels' = ExistingIds(sheet)
    /\ calls' = [calls EXCEPT !.load = @ + 1, !.loaded = @ + 1]
    /\ pc' = "run"
    /\ UNCHANGED <<sheet, remote, outside, now, categories, category_no, pager, enricher,
                   all_new_channels, writer, enriched, history, notification>>

\* the read raises: sheet absent, range not parsable, no permission, network
LoadExistingChannelIdsFails ==
    /\ pc = "construct"
    /\ existing_channels' = {}
    /\ calls' = [calls EXCEPT !.load = @ + 1]
    /\ pc' = "run"
    /\ UNCHANGED <<sheet, remote, outside, now, categories, category_no, pager, enricher,
                   all_new_channels, writer, enriched, history, notification>>

(***************************************************************************)
(* run, lines 308-312, with _load_category_ids (lines 95-105): a missing   *)
(* file and a JSON syntax error give [], a JSON object without the key     *)
(* 'categories' raises KeyError, which nothing catches.                    *)
(***************************************************************************)
LoadRaises(file) == file.status = "ok" /\ "categories" \notin DOMAIN file.data

LoadedCategories(file) ==
    IF file.status = "ok" THEN file.data.categories ELSE <<>>

LoadCategoryIds ==
    /\ pc = "run"
    /\ IF LoadRaises(config)
       THEN /\ pc' = "raised"
            /\ UNCHANGED <<categories, category_no, history>>
       ELSE /\ categories' = LoadedCategories(config)
            /\ category_no' = 1
            /\ history' = [k \in 1..Len(LoadedCategories(config)) |-> NoHistory]
            /\ pc' = "category"
    /\ all_new_channels' = <<>>
    /\ UNCHANGED <<sheet, remote, outside, now, existing_channels, pager, enricher, writer,
                   enriched, calls, notification>>

(***************************************************************************)
(* run, lines 315-319: the head of the loop and the entry of               *)
(* get_popular_videos (lines 110-113).  The log line reads category        *)
(* ['name'] and category['id'].                                            *)
(***************************************************************************)
CategoryRaises(category) ==
    "name" \notin DOMAIN category \/ "id" \notin DOMAIN category

\* FirstQuota keeping the count of the category before
FirstQuotaCarried(carried) == carried

\* line 113: total_quota = 0, whatever an earlier invocation counted
FirstQuota(carried) == 0

CategoryBegin ==
    /\ pc = "category"
    /\ category_no <= Len(categories)
    /\ IF CategoryRaises(categories[category_no])
       THEN /\ pc' = "raised"
            /\ UNCHANGED <<pager, history>>
       ELSE /\ page_channel_ids' = {}
            /\ next_page_token' = None
            /\ total_quota' = FirstQuota(total_quota)
            /\ history' = [history EXCEPT ![category_no].discovery = "running"]
            /\ pc' = "pager"
    /\ UNCHANGED <<sheet, remote, outside, now, existing_channels, categories, category_no,
                   enricher, all_new_channels, writer, enriched, calls,
                   notification>>

(***************************************************************************)
(* run, lines 321-330, after get_popular_videos returned result: the call  *)
(* of get_channel_details, or the pause and the next category.  slept is   *)
(* the time already slept in this step.                                    *)
(***************************************************************************)
AfterDiscovery(result, slept) ==
    /\ channel_ids' = result
    /\ IF result # <<>>
       THEN /\ pc' = "details"
            /\ enriched' = enriched \cup Range(result)
            /\ category_no' = category_no
            /\ now' = now + slept
       ELSE /\ pc' = "category"
            /\ enriched' = enriched
            /\ category_no' = category_no + 1
            /\ now' = now + slept + 1

(***************************************************************************)
(* get_popular_videos, lines 115-145: one turn of the while loop.          *)
(***************************************************************************)
\* CollectNew without the test of line 131
CollectAll(items, known, acc) == acc \cup items

\* lines 129-132
CollectNew(items, known, acc) == acc \cup {ch \in items : ch \notin known}

\* LastPage with > for >= in the test of line 138
LastPageLate(token, quota) == token = None \/ quota > daily_limit

\* line 138
LastPage(token, quota) == token = None \/ quota >= daily_limit

\* PagerDelay with the sleep ahead of the test of line 138
PagerDelayAlways(last) == 1

\* lines 138-142: time.sleep(1) unless the loop was left by break
PagerDelay(last) == IF last THEN 0 ELSE 1

PageRequest ==
    /\ pc = "pager"
    /\ LET chart == videos[categories[category_no].id]
           p == IF next_page_token = None THEN 1 ELSE next_page_token
           token == PageToken(chart, p)
           quota == total_quota + 1
           found == CollectNew(PageItems(chart, p), existing_channels,
                               page_channel_ids)
           seen == [history[category_no] EXCEPT
                        !.pages = @ + 1,
                        !.quota = quota,
                        !.tokenless = IF @ = 0 /\ token = None THEN p ELSE @]
       IN  /\ total_quota' = quota
           /\ page_channel_ids' = found
           /\ next_page_token' = token
           /\ IF LastPage(token, quota)
              THEN /\ \E result \in ListsOf(found) :
                          AfterDiscovery(result, PagerDelay(TRUE))
                   /\ history' = [history EXCEPT ![category_no] =
                          [seen EXCEPT !.discovery = "returned", !.found = found]]
              ELSE /\ now' = now + PagerDelay(FALSE)
                   /\ history' = [history EXCEPT ![category_no] = seen]
                   /\ UNCHANGED <<pc, channel_ids, enriched, category_no>>
    /\ UNCHANGED <<sheet, remote, outside, existing_channels, categories, batch_i, channels,
                   chunk_requests, chunk_failed, detail_calls, all_new_channels,
                   writer, calls, notification>>

\* FailedDiscovery returning what the pages before the failure gave
FailedDiscoveryKeeps(found) == found

\* lines 146-148: request.execute() raises, the function returns []
FailedDiscovery(found) == {}

PageRequestFails ==
    /\ pc = "pager"
    /\ history' = [history EXCEPT
           ![category_no].pages = @ + 1,
           ![category_no].discovery = "failed",
           ![category_no].found = FailedDiscovery(page_channel_ids)]
    /\ \E result \in ListsOf(FailedDiscovery(page_channel_ids)) :
           AfterDiscovery(result, 0)
    /\ UNCHANGED <<sheet, remote, outside, existing_channels, categories, pager, batch_i,
                   channels, chunk_requests, chunk_failed, detail_calls,
                   all_new_channels, writer, calls, notification>>

(***************************************************************************)
(* get_channel_details, lines 152-157: entry.                              *)
(***************************************************************************)
NumChunks(ids) == (Len(ids) + batch_size - 1) \div batch_size

\* Batch with a slice one identifier too long
BatchOverlapping(ids, i) == SubSeq(ids, i + 1, Min(i + batch_size + 1, Len(ids)))

\* channel_ids[i:i + batch_size]
Batch(ids, i) == SubSeq(ids, i + 1, Min(i + batch_size, Len(ids)))

\* the slice of the chunk with number k = 1, 2, ...
Chunk(ids, k) == Batch(ids, (k - 1) * batch_size)

\* AfterDetails with the write of line 339 inside the loop
AfterDetailsWrites(result, slept, counted) ==
    /\ all_new_channels' = all_new_channels \o result
    /\ history' = [counted EXCEPT ![category_no].details = "returned"]
    /\ category_no' = category_no
    /\ now' = now + slept
    /\ pc' = "write_get"

(***************************************************************************)
(* run, lines 324-330, after get_channel_details returned result.          *)
(***************************************************************************)
AfterDetails(result, slept, counted) ==
    /\ all_new_channels' = all_new_channels \o result
    /\ history' = [counted EXCEPT ![category_no].details = "returned"]
    /\ category_no' = category_no + 1
    /\ now' = now + slept + 1
    /\ pc' = "category"

GetChannelDetails ==
    /\ pc = "details"
    /\ chunk_failed' = <<>>
    /\ detail_calls' = <<>>
    /\ batch_i' = 0
    /\ IF channel_ids = <<>>
       THEN /\ AfterDetails(<<>>, 0, history)
            /\ UNCHANGED <<channels, chunk_requests>>
       ELSE /\ channels' = <<>>
            /\ chunk_requests' = [k \in 1..NumChunks(channel_ids) |-> 0]
            /\ history' = [history EXCEPT ![category_no].details = "running"]
            /\ pc' = "enrich"
            /\ UNCHANGED <<all_new_channels, category_no, now>>
    /\ UNCHANGED <<sheet, remote, outside, existing_channels, categories, pager,
                   channel_ids, writer, enriched, calls, notification>>

(***************************************************************************)
(* get_channel_details, lines 158-192: one turn of the for loop.  The API  *)
(* answers with the items of the batch in an order of its own (here the    *)
(* reverse of the request; channel_ids itself comes in any order); the     *)
(* last of the items may be malformed.                                     *)
(***************************************************************************)
Reverse(q) == [k \in 1..Len(q) |-> q[Len(q) + 1 - k]]

\* the answer whose item at position bad (if any) is malformed
AnswerOf(batch, bad) ==
    [k \in 1..Len(batch) |->
        IF k = bad THEN Malformed(RemoteChannel(Reverse(batch)[k]))
        ELSE RemoteChannel(Reverse(batch)[k])]

Answers(batch) == {AnswerOf(batch, bad) : bad \in {0, Len(batch)}}

CountRequest(h) == [h EXCEPT ![category_no].requests = @ + 1]

\* NextBatch leaving the loop when a batch raised
NextBatchStops(i, raised) ==
    IF raised THEN i + batch_size * NumChunks(channel_ids) ELSE i + batch_size

\* range(0, len(channel_ids), batch_size): the start of the batch after the
\* one at i; a batch that raised is left by `continue` (line 190)
NextBatch(i, raised) == i + batch_size

\* the loop goes on with the next batch, or the function returns channels
AfterBatch(result, raised, slept) ==
    /\ batch_i' = NextBatch(batch_i, raised)
    /\ channels' = result
    /\ IF NextBatch(batch_i, raised) >= Len(channel_ids)
       THEN AfterDetails(result, slept, CountRequest(history))
       ELSE /\ pc' = "enrich"
            /\ now' = now + slept
            /\ history' = CountRequest(history)
            /\ UNCHANGED <<all_new_channels, category_no>>

Requested(k) == [chunk_requests EXCEPT ![k] = @ + 1]

\* the request for batch, made now, and the ids of the items it was answered
DetailCall(batch, answer) ==
    [ids |-> batch, items |-> [k \in 1..Len(answer) |-> answer[k].id], at |-> now]

\* lines 161-186: the request of the batch at batch_i is answered
DetailAnswered(answer) ==
    /\ pc = "enrich"
    /\ LET chunk == (batch_i \div batch_size) + 1
           done == ProcessItems(answer, channels, now)
       IN  /\ chunk_requests' = Requested(chunk)
           /\ detail_calls' =
                  Append(detail_calls, DetailCall(Batch(channel_ids, batch_i), answer))
           /\ chunk_failed' = IF done.raised
                              THEN (chunk :> "item") @@ chunk_failed
                              ELSE chunk_failed
           /\ AfterBatch(done.channels, done.raised, IF done.raised THEN 0 ELSE 1)
    /\ UNCHANGED <<sheet, remote, outside, existing_channels, categories, pager,
                   channel_ids, writer, enriched, calls, notification>>

DetailRequest ==
    /\ pc = "enrich"
    /\ \E answer \in Answers(Batch(channel_ids, batch_i)) : DetailAnswered(answer)

\* lines 188-190: request.execute() raises
DetailRequestFails ==
    /\ pc = "enrich"
    /\ LET chunk == (batch_i \div batch_size) + 1
       IN  /\ chunk_requests' = Requested(chunk)
           /\ detail_calls' =
                  Append(detail_calls, DetailCall(Batch(channel_ids, batch_i), <<>>))
           /\ chunk_failed' = (chunk :> "request") @@ chunk_failed
           /\ AfterBatch(channels, TRUE, 0)
    /\ UNCHANGED <<sheet, remote, outside, existing_channels, categories, pager,
                   channel_ids, writer, enriched, calls, notification>>

(***************************************************************************)
(* run, lines 332-341: after the loop.  write_to_spreadsheet is entered    *)
(* with a non-empty list only (its own test of line 196 never succeeds):   *)
(* lines 200-216 build the rows, the steps below are lines 218-252.        *)
(***************************************************************************)
Commit ==
    /\ pc = "category"
    /\ category_no > Len(categories)
    /\ IF all_new_channels # <<>>
       THEN /\ pc' = "write_get"
            /\ calls' = [calls EXCEPT !.write = @ + 1]
            /\ sheet_before' = sheet
       ELSE /\ pc' = "notify"
            /\ UNCHANGED <<calls, sheet_before>>
    /\ UNCHANGED <<sheet, remote, outside, now, existing_channels, categories, category_no,
                   pager, enricher, all_new_channels, last_row, read_rows,
                   enriched, history, notification>>

\* HeaderMissing when the header is the only row as well
HeaderMissingOrAlone(rows) == rows <= 1

\* line 226
HeaderMissing(rows) == rows = 0

\* lines 220-226
ReadColumnA ==
    /\ pc = "write_get"
    /\ last_row' = OccupiedRows(sheet)
    /\ read_rows' = OccupiedRows(sheet)
    /\ calls' = [calls EXCEPT !.get = @ + 1]
    /\ pc' = IF HeaderMissing(OccupiedRows(sheet)) THEN "write_header"
             ELSE "write_append"
    /\ UNCHANGED <<sheet, remote, outside, now, existing_channels, categories, category_no,
                   pager, enricher, all_new_channels, sheet_before, enriched,
                   history, notification>>

\* WriteFails without the except clause of line 251: the error leaves run
WriteFailsAndRaises(op) ==
    /\ pc' = "raised"
    /\ calls' = [calls EXCEPT ![op] = @ + 1]
    /\ UNCHANGED <<sheet, remote, outside, now, existing_channels, categories, category_no,
                   pager, enricher, all_new_channels, writer, enriched, history,
                   notification>>

\* a call of the Sheets API raises: lines 251-252, then run goes on
WriteFails(op) ==
    /\ pc' = "notify"
    /\ calls' = [calls EXCEPT ![op] = @ + 1]
    /\ UNCHANGED <<sheet, remote, outside, now, existing_channels, categories, category_no,
                   pager, enricher, all_new_channels, writer, enriched, history,
                   notification>>

ReadColumnAFails == pc = "write_get" /\ WriteFails("get")

\* values().update(range='A1', body={'values': header_row})
UpdateA1(s, row) == IF s = <<>> THEN <<row>> ELSE [s EXCEPT ![1] = row]

\* lines 227-234
WriteHeader ==
    /\ pc = "write_header"
    /\ sheet' = UpdateA1(sheet, header_row)
    /\ last_row' = 1
    /\ calls' = [calls EXCEPT !.update = @ + 1]
    /\ pc' = "write_append"
    /\ UNCHANGED <<remote, outside, now, existing_channels, categories, category_no, pager,
                   enricher, all_new_channels, read_rows, sheet_before, enriched,
                   history, notification>>

\* WriteHeaderFails with the except clause around the header write alone: the
\* function goes on to the append
WriteHeaderFailsAndAppends ==
    /\ pc = "write_header"
    /\ calls' = [calls EXCEPT !.update = @ + 1]
    /\ pc' = "write_append"
    /\ UNCHANGED <<sheet, remote, outside, now, existing_channels, categories, category_no,
                   pager, enricher, all_new_channels, writer, enriched, history,
                   notification>>

WriteHeaderFails == pc = "write_header" /\ WriteFails("update")

\* values().append(range='A{at}', insertDataOption='INSERT_ROWS'): the rows
\* are inserted as the rows at, at + 1, ...
InsertRows(s, at, rows) == SubSeq(s, 1, at - 1) \o rows \o SubSeq(s, at, Len(s))

\* AppendAt without the + 1 of line 242
AppendAtLast(rows) == rows

\* line 242
AppendAt(rows) == rows + 1

\* lines 237-249
AppendRows ==
    /\ pc = "write_append"
    /\ sheet' = InsertRows(sheet, AppendAt(last_row), ValuesOf(all_new_channels))
    /\ calls' = [calls EXCEPT !.append = @ + 1, !.appended = @ + 1]
    /\ pc' = "notify"
    /\ UNCHANGED <<remote, outside, now, existing_channels, categories, category_no, pager,
                   enricher, all_new_channels, writer, enriched, history,
                   notification>>

AppendRowsFails == pc = "write_append" /\ WriteFails("append")

(***************************************************************************)
(* run, lines 343-345, and send_slack_notification (lines 254-304): the    *)
(* post answers 200, answers another status, or raises; each is logged.    *)
(***************************************************************************)
EmailCount(new_channels) ==
    Cardinality({k \in 1..Len(new_channels) :
                    /\ new_channels[k].email # <<>>
                    /\ new_channels[k].email # EXTRACT_FAILED})

SendSlackNotification ==
    /\ pc = "notify"
    /\ \E answer \in {"200", "500", "raises"} :
           notification' = <<[new_channels |-> all_new_channels,
                              email_count |-> EmailCount(all_new_channels),
                              answer |-> answer]>>
    /\ calls' = [calls EXCEPT !.notify = @ + 1, !.post = @ + 1]
    /\ pc' = "done"
    /\ UNCHANGED <<sheet, remote, outside, now, existing_channels, categories, category_no,
                   pager, enricher, all_new_channels, writer, enriched, history>>

(***************************************************************************)
(* The run.                                                                *)
(***************************************************************************)
Next ==
    \/ LoadExistingChannelIds
    \/ LoadExistingChannelIdsFails
    \/ LoadCategoryIds
    \/ CategoryBegin
    \/ PageRequest
    \/ PageRequestFails
    \/ GetChannelDetails
    \/ DetailRequest
    \/ DetailRequestFails
    \/ Commit
    \/ ReadColumnA
    \/ ReadColumnAFails
    \/ WriteHeader
    \/ WriteHeaderFails
    \/ AppendRows
    \/ AppendRowsFails
    \/ SendSlackNotification

Spec == Init /\ [][Next]_vars

\* the scheduler runs the single thread as long as it has a step to take
FairSpec == Spec /\ WF_vars(Next)

(***************************************************************************)
(* get_popular_videos on its own: the run is at the head of the loop over  *)
(* one category whose chart may be longer than daily_limit pages, or       *)
(* without an end.                                                         *)
(***************************************************************************)
PagerPageCounts ==
    {1, 2, daily_limit - 1, daily_limit}
        \cup {daily_limit + k : k \in 1..MaxExtraPages}
PagerCharts ==
    [pages : PagerPageCounts, endless : BOOLEAN, cycle : {<<{ChannelId(1)}>>}]

InitPager ==
    /\ sheet \in {<<>>, <<header_row, StoredRow(ChannelId(1))>>}
    /\ config = [status |-> "ok", data |-> [categories |-> CategoryList(1, FALSE)]]
    /\ videos \in [CategoryIds -> PagerCharts]
    /\ \A c \in CategoryIds : videos[c] = videos[1]
    /\ now = 1
    /\ pc = "category"
    /\ existing_channels = ExistingIds(sheet)
    /\ categories = CategoryList(1, FALSE)
    /\ category_no = 1
    /\ page_channel_ids = {}
    /\ next_page_token = None
    /\ total_quota = 0
    /\ channel_ids = <<>>
    /\ batch_i = 0
    /\ channels = <<>>
    /\ all_new_channels = <<>>
    /\ last_row = 0
    /\ enriched = {}
    /\ history = <<NoHistory>>
    /\ chunk_requests = <<>>
    /\ chunk_failed = <<>>
    /\ detail_calls = <<>>
    /\ calls = [NoCalls EXCEPT !.load = 1, !.loaded = 1]
    /\ read_rows = -1
    /\ sheet_before = <<>>
    /\ notification = <<>>
    /\ description = <<>>
    /\ email = <<>>
    /\ earlier = <<>>

NextPager ==
    \/ CategoryBegin
    \/ PageRequest
    \/ PageRequestFails

SpecPager == InitPager /\ [][NextPager]_vars

(***************************************************************************)
(* get_popular_videos category after category, no request failing: the     *)
(* sheet knows the channel of the charts, so that every discovery returns  *)
(* nothing new and the run goes on to the next category.  The categories   *)
(* after the first have the same chart; the first has it too, or a chart   *)
(* of one page.                                                            *)
(***************************************************************************)
InitQuota ==
    /\ sheet = <<header_row, StoredRow(ChannelId(1))>>
    /\ config = [status |-> "ok",
                 data |-> [categories |-> CategoryList(MaxCategories, FALSE)]]
    /\ videos \in [CategoryIds -> PagerCharts]
    /\ \A c \in CategoryIds \ {1} : videos[c] = videos[MaxCategories]
    /\ videos[1] \in {videos[MaxCategories],
                      [pages |-> 1, endless |-> FALSE, cycle |-> <<{ChannelId(1)}>>]}
    /\ now = 1
    /\ pc = "category"
    /\ existing_channels = ExistingIds(sheet)
    /\ categories = CategoryList(MaxCategories, FALSE)
    /\ category_no = 1
    /\ page_channel_ids = {}
    /\ next_page_token = None
    /\ total_quota = 0
    /\ channel_ids = <<>>
    /\ batch_i = 0
    /\ channels = <<>>
    /\ all_new_channels = <<>>
    /\ last_row = 0
    /\ enriched = {}
    /\ history = [c \in 1..MaxCategories |-> NoHistory]
    /\ chunk_requests = <<>>
    /\ chunk_failed = <<>>
    /\ detail_calls = <<>>
    /\ calls = [NoCalls EXCEPT !.load = 1, !.loaded = 1]
    /\ read_rows = -1
    /\ sheet_before = <<>>
    /\ notification = <<>>
    /\ description = <<>>
    /\ email = <<>>
    /\ earlier = <<>>

NextQuota ==
    \/ CategoryBegin
    \/ PageRequest

SpecQuota == InitQuota /\ [][NextQuota]_vars

(***************************************************************************)
(* The job run again and again on the same sheet with the remote data      *)
(* unchanged (lines 347-375: each run is a new process with a new          *)
(* collector), the configuration well formed and every call of the         *)
(* YouTube and Sheets APIs succeeding.                                     *)
(***************************************************************************)
\* what an ended run leaves to look back on: the sheet before and after it,
\* the identifiers it passed to get_channel_details and those it appended
RunRecord ==
    [before |-> IF calls.write = 0 THEN sheet ELSE sheet_before,
     sheet |-> sheet,
     enriched |-> enriched,
     committed |-> IF calls.appended = 0 THEN {}
                   ELSE {all_new_channels[k].channel_id :
                            k \in 1..Len(all_new_channels)}]

RunAgain ==
    /\ pc = "done"
    /\ Len(earlier) < MaxRuns - 1
    /\ earlier' = Append(earlier, RunRecord)
    /\ pc' = "construct"
    /\ existing_channels' = {}
    /\ categories' = <<>>
    /\ category_no' = 0
    /\ page_channel_ids' = {}
    /\ next_page_token' = None
    /\ total_quota' = 0
    /\ channel_ids' = <<>>
    /\ batch_i' = 0
    /\ channels' = <<>>
    /\ all_new_channels' = <<>>
    /\ last_row' = 0
    /\ enriched' = {}
    /\ history' = <<>>
    /\ chunk_requests' = <<>>
    /\ chunk_failed' = <<>>
    /\ detail_calls' = <<>>
    /\ calls' = NoCalls
    /\ read_rows' = -1
    /\ sheet_before' = <<>>
    /\ notification' = <<>>
    /\ UNCHANGED <<sheet, remote, now, description, email>>

DetailRequestSucceeds ==
    /\ pc = "enrich"
    /\ DetailAnswered(AnswerOf(Batch(channel_ids, batch_i), 0))

InitTwice ==
    /\ sheet \in StoreSamples
    /\ config \in {[status |-> "ok", data |-> [categories |-> CategoryList(n, FALSE)]] :
                      n \in 0..MaxCategories}
    /\ videos \in VideoCharts
    /\ pc = "construct"
    /\ InitLocals
    /\ description = <<>>
    /\ email = <<>>
    /\ earlier = <<>>

NextTwice ==
    \/ LoadExistingChannelIds
    \/ LoadCategoryIds
    \/ CategoryBegin
    \/ PageRequest
    \/ GetChannelDetails
    \/ DetailRequestSucceeds
    \/ Commit
    \/ ReadColumnA
    \/ WriteHeader
    \/ AppendRows
    \/ SendSlackNotification
    \/ RunAgain

SpecTwice == InitTwice /\ [][NextTwice]_vars

(***************************************************************************)
(* extract_email on its own: the descriptions are the texts of up to       *)
(* MaxText characters over a letter, the at sign, the dot and the          *)
(* backslash, and some longer ones.                                        *)
(***************************************************************************)
TextChars == {"a", "@", ".", "\\"}

ContactText ==
    <<"c", "o", "n", "t", "a", "c", "t", " ", "m", "e", " ", "a", "t", " ",
      "a", ".", "b", "+", "c", "@", "e", "x", "a", "m", "p", "l", "e", ".",
      "c", "o", ".", "u", "k", " ", "p", "l", "e", "a", "s", "e">>

NoContactText ==
    <<"n", "o", " ", "c", "o", "n", "t", "a", "c", "t", " ", "i", "n", "f",
      "o">>

LongerTexts ==
    {ContactText, NoContactText,
     <<"m", "a", "i", "l", ":", " ", "x", "_", "1", "%", "y", "@", "s", "u", "b", "-", "1", ".", "e", "x", "a", "m", "p", "l", "e", ".", "c", "o", "m", ".">>,
     <<"a", "@", "b", ".", "c", " ", "d", "@", "e", ".", "f", "g">>,
     <<"w", "@", "x", ".", "y", "\\", ".", "j", "p", "1">>}

Texts == UNION {[1..k -> TextChars] : k \in 0..MaxText} \cup LongerTexts

InitEmail ==
    /\ sheet = <<>>
    /\ config = [status |-> "absent"]
    /\ videos = [c \in CategoryIds |->
                    [pages |-> 1, endless |-> FALSE, cycle |-> <<{}>>]]
    /\ pc = "extract"
    /\ InitLocals
    /\ description \in Texts
    /\ email = <<>>
    /\ earlier = <<>>

\* lines 29-40
ExtractEmail ==
    /\ pc = "extract"
    /\ email' = extract_email(description)
    /\ pc' = "extracted"
    /\ UNCHANGED <<sheet, remote, now, existing_channels, categories, category_no,
                   pager, enricher, all_new_channels, writer, enriched, history,
                   calls, notification, description, earlier>>

NextEmail == ExtractEmail

SpecEmail == InitEmail /\ [][NextEmail]_vars

(***************************************************************************)
(* get_channel_details on lists of up to MaxIds identifiers: the run has   *)
(* one category, its discovery returned the channels 1..n, none of them    *)
(* known, and the call of line 323 is about to be made.                    *)
(***************************************************************************)
IdList(n) == [k \in 1..n |-> ChannelId(k)]

\* short lists and list lengths around the multiples of batch_size, up to
\* MaxIds
ListLengths ==
    {n \in 0..MaxIds :
        \/ n <= 4
        \/ n > 2 * batch_size
        \/ \E m \in {batch_size, 2 * batch_size} : n \in (m - 1)..(m + 1)}

InitEnrich ==
    /\ sheet \in {<<>>, <<header_row>>}
    /\ config = [status |-> "ok", data |-> [categories |-> CategoryList(1, FALSE)]]
    /\ videos = [c \in CategoryIds |->
                    [pages |-> 1, endless |-> FALSE, cycle |-> <<Channels>>]]
    /\ now = 1
    /\ pc = "details"
    /\ existing_channels = {}
    /\ categories = CategoryList(1, FALSE)
    /\ category_no = 1
    /\ page_channel_ids = {}
    /\ next_page_token = None
    /\ total_quota = 1
    /\ \E n \in ListLengths :
          /\ channel_ids = IdList(n)
          /\ enriched = Range(IdList(n))
          /\ history = <<[NoHistory EXCEPT !.discovery = "returned", !.pages = 1,
                             !.quota = 1, !.tokenless = 1,
                             !.found = Range(IdList(n))]>>
    /\ batch_i = 0
    /\ channels = <<>>
    /\ all_new_channels = <<>>
    /\ last_row = 0
    /\ chunk_requests = <<>>
    /\ chunk_failed = <<>>
    /\ detail_calls = <<>>
    /\ calls = [NoCalls EXCEPT !.load = 1, !.loaded = 1]
    /\ read_rows = -1
    /\ sheet_before = <<>>
    /\ notification = <<>>
    /\ description = <<>>
    /\ email = <<>>
    /\ earlier = <<>>

NextEnrich ==
    \/ GetChannelDetails
    \/ DetailRequest
    \/ DetailRequestFails
    \/ Commit
    \/ ReadColumnA
    \/ ReadColumnAFails
    \/ WriteHeader
    \/ WriteHeaderFails
    \/ AppendRows
    \/ AppendRowsFails
    \/ SendSlackNotification

SpecEnrich == InitEnrich /\ [][NextEnrich]_vars

(***************************************************************************)
(* Properties.                                                             *)
(***************************************************************************)
Categories == 1..Len(history)

\* the pages of category position c that were requested and answered
AnsweredPages(c) ==
    1..(IF history[c].discovery = "failed" THEN history[c].pages - 1
        ELSE history[c].pages)

\* C1: every identifier passed to get_channel_details, in any category and
\* from any page, is absent from the known-id set loaded at construction.
C1_EnrichedAreUnknown ==
    /\ enriched \cap existing_channels = {}
    /\ pc \in {"details", "enrich"} => Range(channel_ids) \cap existing_channels = {}

\* a run that found a known and an unknown channel on the pages of a category
\* and has passed identifiers to get_channel_details
C1_Witness ==
    /\ enriched # {}
    /\ \E c \in Categories : \E p \in AnsweredPages(c) :
          PageItems(videos[categories[c].id], p) \cap existing_channels # {}

ColumnOf(key) == CHOOSE j \in 1..Len(header_map) : header_map[j][1] = key

\* the rows the append of this run added to the sheet
AppendedRows ==
    IF calls.appended = 0 THEN {}
    ELSE {sheet[r] : r \in (last_row + 1)..(last_row + Len(all_new_channels))}

\* the chunks of the current call that were requested and did not raise
ChunksDone ==
    {k \in DOMAIN chunk_requests : chunk_requests[k] > 0 /\ k \notin DOMAIN chunk_failed}

HasRecord(list, ch) == \E k \in 1..Len(list) : list[k].channel_id = ch

\* what the remote says of the subscribers of ch, as text ("" when hidden)
RemoteCount(ch) ==
    LET stats == RemoteChannel(ch).statistics
    IN  IF "subscriberCount" \in DOMAIN stats THEN stats.subscriberCount ELSE <<>>

\* C2: every record get_channel_details returns and every row the run appends
\* has subscriber_count >= the threshold; a channel with exactly the threshold
\* is kept, one with one less or with no count is dropped.
C2_ThresholdInclusive ==
    /\ \A k \in 1..Len(channels) :
          channels[k].subscriber_count >= MIN_SUBSCRIBER_COUNT
    /\ \A row \in AppendedRows :
          row[ColumnOf("subscriber_count")] >= MIN_SUBSCRIBER_COUNT
    /\ \A k \in ChunksDone : \A ch \in Range(Chunk(channel_ids, k)) :
          /\ RemoteCount(ch) = ToDigits(MIN_SUBSCRIBER_COUNT) => HasRecord(channels, ch)
          /\ RemoteCount(ch) = ToDigits(MIN_SUBSCRIBER_COUNT - 1) => ~HasRecord(channels, ch)
          /\ RemoteCount(ch) = <<>> => ~HasRecord(channels, ch)

\* a chunk with channels at the threshold, one below it and without a count
\* was processed, and the run appended its rows
C2_Witness ==
    /\ calls.appended = 1
    /\ \E k \in ChunksDone :
          /\ \E ch \in Range(Chunk(channel_ids, k)) : RemoteCount(ch) = <<>>
          /\ \E ch \in Range(Chunk(channel_ids, k)) :
                RemoteCount(ch) = ToDigits(MIN_SUBSCRIBER_COUNT)
          /\ \E ch \in Range(Chunk(channel_ids, k)) :
                RemoteCount(ch) = ToDigits(MIN_SUBSCRIBER_COUNT - 1)

\* the index of the first page of the chart that comes without a token;
\* beyond daily_limit when there is none
FirstTokenless(chart) == IF chart.endless THEN daily_limit + 1 ELSE chart.pages

\* C3: when no request fails, one get_popular_videos invocation issues exactly
\* min(k, 10000) page requests, k the index of the first page without a
\* continuation token, and counts one unit of quota per request.
C3_PageRequests ==
    /\ \A c \in Categories :
          history[c].discovery = "returned" =>
              /\ history[c].pages =
                    Min(FirstTokenless(videos[categories[c].id]), 10000)
              /\ history[c].quota = history[c].pages
    /\ pc = "pager" => total_quota = history[category_no].pages

\* a discovery over a chart without an end returned, after 10000 requests
C3_Witness ==
    \E c \in Categories :
        /\ history[c].discovery = "returned"
        /\ videos[categories[c].id].endless
        /\ history[c].pages = 10000

\* C4: when a page request of get_popular_videos fails, the category yields
\* an empty result, whatever its earlier pages gave; from then on no page and
\* no detail request is made for that category, and the run is at the next
\* category.
C4_FailedDiscoveryIsEmpty ==
    [][\A c \in DOMAIN history' :
          history'[c].discovery = "failed" =>
              /\ history'[c].found = {}
              /\ history'[c].details = "none" /\ history'[c].requests = 0
              /\ category_no' > c
              /\ IF c \in DOMAIN history /\ history[c].discovery = "failed"
                 THEN history'[c] = history[c]
                 ELSE /\ channel_ids' = <<>>
                      /\ enriched' = enriched
                      /\ all_new_channels' = all_new_channels
                      /\ category_no' = c + 1
                      /\ pc' = "category"]_vars

\* the second page of the first category failed after its first page had
\* given an unknown channel, and the second category was then discovered
C4_Witness ==
    /\ Len(history) >= 2
    /\ history[1].discovery = "failed" /\ history[1].pages = 2
    /\ PageItems(videos[categories[1].id], 1) \ existing_channels # {}
    /\ history[2].discovery = "returned"

\* the records of list for the identifiers of chunk k
ChunkRecords(list, k) ==
    {j \in 1..Len(list) : list[j].channel_id \in Range(Chunk(channel_ids, k))}

\* the remote has ch at or above the threshold
Popular(ch) ==
    RemoteCount(ch) \in {ToDigits(MIN_SUBSCRIBER_COUNT), ToDigits(MIN_SUBSCRIBER_COUNT + 1)}

\* C5: when a chunk of get_channel_details fails, every later chunk is still
\* requested, and the above-threshold records of every chunk that did not
\* fail are in the output and in what the run commits.
C5_OtherChunksKept ==
    /\ pc = "enrich" =>
          \A k \in DOMAIN chunk_requests :
              chunk_requests[k] = (IF (k - 1) * batch_size < batch_i THEN 1 ELSE 0)
    /\ pc \notin {"details", "enrich"} /\ channel_ids # <<>> =>
          /\ \A k \in 1..NumChunks(channel_ids) : chunk_requests[k] = 1
          /\ \A k \in ChunksDone : \A ch \in Range(Chunk(channel_ids, k)) :
                Popular(ch) =>
                    /\ HasRecord(channels, ch)
                    /\ HasRecord(all_new_channels, ch)
                    /\ calls.appended = 1 =>
                          \E row \in AppendedRows : row[ColumnOf("channel_id")] = ch

\* the second of three chunks failed, the first and the third did not, and
\* the run appended its rows
C5_Witness ==
    /\ NumChunks(channel_ids) = 3
    /\ DOMAIN chunk_failed = {2}
    /\ ChunkRecords(channels, 1) # {} /\ ChunkRecords(channels, 3) # {}
    /\ calls.appended = 1

\* C6: a chunk of get_channel_details that failed, by its request or by one
\* of its items, has no record of any of its items in the output, and is
\* requested once.
C6_FailedChunkHasNoRecord ==
    \A k \in DOMAIN chunk_failed :
        /\ ChunkRecords(channels, k) = {}
        /\ chunk_requests[k] = 1

\* C7: write_to_spreadsheet writes the header row to row 1 if and only if the
\* read of column A returned no row, and then before the append is issued;
\* when column A has an occupied row no header write is issued.
C7_HeaderIffEmpty ==
    [][/\ calls'.update # calls.update =>
             /\ read_rows = 0
             /\ calls.update = 0 /\ calls.append = 0 /\ calls'.append = 0
             /\ sheet' # sheet => sheet' = <<header_row>>
       /\ calls'.append # calls.append =>
             /\ read_rows >= 0
             /\ read_rows = 0 <=> calls.update = 1
             /\ read_rows = 0 => sheet = <<header_row>>
             /\ read_rows > 0 => sheet = sheet_before
       /\ read_rows' # read_rows => read_rows' = OccupiedRows(sheet_before)]_vars

\* the header was written to an empty sheet and the append was then issued
C7_Witness ==
    /\ sheet_before = <<>>
    /\ calls.update = 1 /\ calls.appended = 1
    /\ sheet[1] = header_row

\* the key of header_map whose label is the given one
KeyOf(label) ==
    LET j == CHOOSE m \in 1..Len(header_map) : header_map[m][2] = label
    IN  header_map[j][1]

\* C8: a successful write_to_spreadsheet leaves every row that was occupied
\* unchanged and adds the records, in their order and by one append call, as
\* the rows after the last occupied row (from row 2 when the sheet was empty);
\* the cells of a row follow the columns of the header.
C8_AppendAfterLastRow ==
    calls.appended = 1 =>
        LET first == IF sheet_before = <<>> THEN 2
                     ELSE OccupiedRows(sheet_before) + 1
        IN  /\ calls.append = 1
            /\ \A r \in 1..Len(sheet_before) : sheet[r] = sheet_before[r]
            /\ sheet[1] = header_row
            /\ Len(sheet) = first - 1 + Len(all_new_channels)
            /\ all_new_channels # <<>>
            /\ \A k \in 1..Len(all_new_channels) : \A j \in 1..Len(sheet[1]) :
                  /\ Len(sheet[first - 1 + k]) = Len(sheet[1])
                  /\ sheet[first - 1 + k][j] = all_new_channels[k][KeyOf(sheet[1][j])]

\* two records were appended to a sheet that had rows
C8_Witness ==
    /\ calls.appended = 1
    /\ sheet_before # <<>>
    /\ Len(all_new_channels) >= 2
    /\ all_new_channels[1].fetched_at # all_new_channels[2].fetched_at

StoreCalls(c) == c.write + c.get + c.update + c.append

\* C9: the steps of a run come in a fixed order and do not repeat: the known
\* ids are read once, before any discovery request; the categories are taken
\* one after another, each with its discovery before its enrichment; the
\* store is written at most once, after the last category; the notification
\* is sent once, after the write step.
C9_StepsInOrder ==
    [][/\ calls'.load <= 1
       /\ calls'.load # calls.load => history = <<>> /\ enriched = {}
       /\ \A c \in DOMAIN history' : history'[c].pages > 0 => calls'.load = 1
       /\ category_no' >= category_no
       /\ \A c \in DOMAIN history :
             /\ history'[c] # history[c] => category_no = c
             /\ history[c].discovery \in {"returned", "failed"} =>
                   history'[c].pages = history[c].pages
             /\ history[c].details = "returned" => history'[c] = history[c]
       /\ \A c \in DOMAIN history' :
             history'[c].details # "none" \/ history'[c].requests > 0 =>
                 history'[c].discovery = "returned"
       /\ calls'.write <= 1 /\ calls'.get <= 1
       /\ calls'.update <= 1 /\ calls'.append <= 1
       /\ StoreCalls(calls') > 0 =>
             /\ category_no' > Len(categories')
             /\ \A c \in DOMAIN history' :
                   /\ history'[c].discovery \in {"returned", "failed"}
                   /\ history'[c].details \in {"none", "returned"}
       /\ StoreCalls(calls) > 0 => history' = history /\ enriched' = enriched
       /\ sheet' # sheet => StoreCalls(calls') > StoreCalls(calls)
       /\ calls'.notify <= 1 /\ calls'.post <= 1
       /\ calls'.notify # calls.notify => category_no > Len(categories)
       /\ calls.notify = 1 => calls' = calls /\ sheet' = sheet /\ history' = history
       /\ pc' = "done" => calls'.notify = 1 /\ calls'.post = 1]_vars

\* a run over two categories, both discovered and enriched, wrote its rows
\* and sent its notification
C9_Witness ==
    /\ pc = "done"
    /\ Len(history) = 2
    /\ \A c \in Categories : history[c].details = "returned"
    /\ calls.appended = 1 /\ calls.notify = 1

\* the configuration gives a list of categories that have their keys
CategoriesWellFormed ==
    /\ ~LoadRaises(config)
    /\ \A k \in 1..Len(LoadedCategories(config)) :
          ~CategoryRaises(LoadedCategories(config)[k])

\* C10: a run of a constructed collector reaches the notification step and
\* ends normally whichever discovery requests, detail requests, store writes
\* and notification posts fail (a run that raised has no further step, so it
\* never ends normally).
C10_RunEndsWithNotification ==
    CategoriesWellFormed => <>(pc = "done" /\ calls.notify = 1)

\* a run ended in which a discovery, a chunk, the append and the post failed
C10_Witness ==
    /\ pc = "done"
    /\ \E c \in Categories : history[c].discovery = "failed"
    /\ chunk_failed # <<>>
    /\ calls.append = 1 /\ calls.appended = 0
    /\ notification[1].answer = "raises"

\* the positions of write_to_spreadsheet
WriteSteps == {"write_get", "write_header", "write_append"}

\* the store write of the run was attempted and ended without its append
WriteFailed == calls.write = 1 /\ pc \in {"notify", "done"} /\ calls.appended = 0

\* C11: a rejected row-count read, header write or append is caught: the step
\* leaves the sheet and the record list as they are and the run is at the
\* notification; from then on no store call is made again, and the
\* notification is given the whole record list; after a rejected header write
\* no append is issued.
C11_WriteFailureIsContained ==
    [][/\ pc \in WriteSteps => all_new_channels' = all_new_channels
       /\ pc \in WriteSteps /\ pc' \notin WriteSteps
             /\ calls'.appended = calls.appended =>
                 pc' = "notify" /\ sheet' = sheet
       /\ WriteFailed =>
             /\ sheet' = sheet /\ all_new_channels' = all_new_channels
             /\ calls'.write = calls.write /\ calls'.get = calls.get
             /\ calls'.update = calls.update /\ calls'.append = calls.append
             /\ pc = "notify" =>
                   /\ pc' = "done"
                   /\ all_new_channels # <<>>
                   /\ notification'[1].new_channels = all_new_channels
       /\ calls'.update = 1 /\ sheet' = <<>> => calls'.append = 0]_vars

\* the header write was rejected, no append followed, and the notification
\* was given the records that were to be written
C11_Witness ==
    /\ pc = "done"
    /\ calls.update = 1 /\ sheet = <<>> /\ calls.append = 0
    /\ all_new_channels # <<>>
    /\ notification[1].new_channels = all_new_channels

\* the identifier cells that are not empty, from row 2 of the sheet downward
IdCellsBelowHeader(s) ==
    {s[r][1] : r \in {q \in 1..Len(s) : q >= 2 /\ Len(s[q]) > 0}}

\* C12: when the read of the identifier column fails, the known-id set is
\* empty and the run goes on (it raises only for a malformed configuration);
\* when the read succeeds, the known-id set is exactly the non-empty
\* identifier cells from row 2 downward, the header cell left out.
C12_KnownIdsLoaded ==
    /\ pc = "construct" <=> calls.load = 0
    /\ calls.load = 1 /\ calls.loaded = 0 => existing_channels = {}
    /\ calls.loaded = 1 /\ calls.update = 0 /\ calls.appended = 0 =>
          /\ existing_channels = IdCellsBelowHeader(sheet)
          /\ sheet # <<>> => sheet[1][1] \notin existing_channels
    /\ pc = "raised" => ~CategoriesWellFormed

\* the read failed on a sheet with identifiers, and the run, taking every
\* channel for new, enriched one that the sheet has and ended
C12_Witness ==
    /\ pc = "done"
    /\ calls.load = 1 /\ calls.loaded = 0
    /\ enriched \cap IdCellsBelowHeader(sheet_before) # {}

\* the page requests the run has made so far, over all its categories
RECURSIVE PagesUpTo(_)
PagesUpTo(c) == IF c = 0 THEN 0 ELSE history[c].pages + PagesUpTo(c - 1)

\* C13: the quota counter is 0 when get_popular_videos starts on a category
\* and counts the requests of that category alone; no category gets more than
\* 10000 page requests, and a category whose every page has a token gets
\* exactly 10000, whatever the categories before it used.
C13_QuotaPerCategory ==
    [][/\ pc = "category" /\ pc' = "pager" => total_quota' = 0
       /\ pc' = "pager" => total_quota' = history'[category_no'].pages
       /\ \A c \in DOMAIN history' :
             /\ history'[c].pages <= daily_limit
             /\ history'[c].quota <= history'[c].pages
             /\ history'[c].discovery = "returned"
                   /\ videos'[categories'[c].id].endless =>
                       history'[c].pages = daily_limit]_vars

\* two categories got 10000 page requests each: the run made more page
\* requests than the ceiling
C13_Witness ==
    /\ Len(history) >= 2
    /\ history[1].pages = daily_limit /\ history[2].pages = daily_limit
    /\ history[2].discovery = "returned"
    /\ PagesUpTo(Len(history)) > daily_limit

\* the identifiers of the records of list, in their order
IdsOf(list) == [k \in 1..Len(list) |-> list[k].channel_id]

\* the sequences of qs one after another
RECURSIVE Concat(_)
Concat(qs) == IF qs = <<>> THEN <<>> ELSE Head(qs) \o Concat(Tail(qs))

\* C14: a get_channel_details call on n identifiers whose requests all
\* succeeded made ceil(n / 50) requests; the requests ask for consecutive
\* slices of the input, of 50 identifiers each but for a shorter last one
\* (50, 50 and 1 for 101), and the output has the records of the chunks one
\* after another, those of a chunk in the order of the items of its answer.
C14_Chunking ==
    /\ pc = "enrich" => Len(detail_calls) * 50 = batch_i
    /\ pc \notin {"details", "enrich"} /\ channel_ids # <<>> /\ chunk_failed = <<>> =>
          LET n == Len(channel_ids)
              m == Len(detail_calls)
          IN  /\ 50 * (m - 1) < n /\ n <= 50 * m
              /\ \A k \in 1..m :
                    Len(detail_calls[k].ids) = (IF k < m THEN 50 ELSE n - 50 * (m - 1))
              /\ Concat([k \in 1..m |-> detail_calls[k].ids]) = channel_ids
              /\ \A ch \in Range(channel_ids) :
                    Cardinality({k \in 1..m : ch \in Range(detail_calls[k].ids)}) = 1
              /\ n = 101 =>
                    [k \in 1..m |-> Len(detail_calls[k].ids)] = <<50, 50, 1>>
              /\ IdsOf(channels) =
                    Concat([k \in 1..m |-> SelectSeq(detail_calls[k].items, Popular)])

\* 101 identifiers were enriched by three requests, and the answer of the
\* first came in another order than its request
C14_Witness ==
    /\ pc \notin {"details", "enrich"} /\ chunk_failed = <<>>
    /\ Len(channel_ids) = 101 /\ Len(detail_calls) = 3
    /\ detail_calls[1].items # detail_calls[1].ids
    /\ Len(channels) > 2

\* the position after the e-mail address that starts at d[s], 0 when none
\* does: characters of the local part, an at sign, domain labels, and after
\* their last dot a top-level domain of two or more letters
AddressEnd(d, s) ==
    LET at == s + RunLen(d, s, LocalChars)
        dom == IF at > s /\ at <= Len(d) /\ d[at] = "@"
               THEN RunLen(d, at + 1, DomainChars) ELSE 0
        dots == {q \in (at + 2)..(at + dom) :
                    d[q] = "." /\ RunLen(d, q + 1, Alpha) >= 2}
    IN  IF dots = {} THEN 0
        ELSE LET q == CHOOSE m \in dots : \A o \in dots : o <= m
             IN  q + 1 + RunLen(d, q + 1, Alpha)

\* the first e-mail address of d, or the sentinel
FirstAddress(d) ==
    LET starts == {s \in 1..Len(d) : AddressEnd(d, s) # 0}
    IN  IF starts = {} THEN EXTRACT_FAILED
        ELSE LET s == CHOOSE m \in starts : \A o \in starts : m <= o
             IN  SubSeq(d, s, AddressEnd(d, s) - 1)

\* C15: extract_email returns the first e-mail-shaped substring of the
\* description and the sentinel when there is none: a.b+c@example.co.uk for
\* "contact me at a.b+c@example.co.uk please", the sentinel for "no contact
\* info" and for the empty description.
C15_ExtractsFirstAddress ==
    pc = "extracted" =>
        /\ email = FirstAddress(description)
        /\ description = ContactText => email = SubSeq(ContactText, 15, 33)
        /\ description = NoContactText => email = EXTRACT_FAILED
        /\ description = <<>> => email = EXTRACT_FAILED

\* the configuration file is absent, is not JSON, or is JSON without the list
\* of categories or without the name or id of a category
ConfigUnusable == config.status # "ok" \/ ~CategoriesWellFormed

\* C16: with an absent or malformed configuration the loader gives the empty
\* sequence and the run proceeds: it does not raise, takes no category, makes
\* no store write and ends with the notification sent.
C16_UnusableConfigIsEmpty ==
    ConfigUnusable /\ pc \notin {"construct", "run"} =>
        /\ pc # "raised"
        /\ categories = <<>> /\ history = <<>> /\ enriched = {}
        /\ calls.write = 0
        /\ pc = "done" => calls.notify = 1

\* C17: of two consecutive detail requests of one get_channel_details call
\* the later is issued at least one delay (one unit of time) after the
\* earlier, whether or not the earlier chunk failed.
C17_DelayBetweenDetailRequests ==
    \A k \in 2..Len(detail_calls) :
        detail_calls[k].at >= detail_calls[k - 1].at + 1

\* C18: a step of the pager is one page request; when another page request
\* of the category follows, exactly one delay lies between the two; after
\* the terminal page the pager returns without a delay (when it returns
\* nothing, the one delay that follows is that of run, line 330).
C18_OneDelayBetweenPages ==
    [][pc = "pager" =>
          /\ history'[category_no].pages = history[category_no].pages + 1
          /\ pc' = "pager" => now' = now + 1 /\ category_no' = category_no
          /\ pc' = "details" => now' = now
          /\ pc' = "category" => now' = now + 1]_vars

\* a discovery that stopped at the ceiling returned identifiers: 10000 page
\* requests, 9999 delays
C18_Witness ==
    /\ pc = "details"
    /\ history[1].discovery = "returned" /\ history[1].pages = daily_limit
    /\ videos[categories[1].id].endless
    /\ now = daily_limit

\* no identifier is in column A of two rows of s
NoIdTwice(s) ==
    \A a, b \in 1..Len(s) :
        a # b /\ s[a] # <<>> /\ s[b] # <<>> => s[a][1] # s[b][1]

\* the sheet as the run found it
SheetAtStart == IF calls.write = 0 THEN sheet ELSE sheet_before

\* C19: when the sheet had no identifier twice at the start of the run and
\* the known ids were loaded, the sheet has no identifier twice when the run
\* has ended: a channel found in two categories is appended once at most.
C19_NoIdentifierTwice ==
    pc = "done" /\ calls.loaded = 1 /\ NoIdTwice(SheetAtStart) => NoIdTwice(sheet)

\* the identifiers the runs before this one appended
CommittedEarlier == UNION {earlier[k].committed : k \in 1..Len(earlier)}

\* C20: a run that follows a run on the same sheet, the remote data
\* unchanged and every call succeeding, passes to get_channel_details no
\* identifier an earlier run appended, writes nothing, and leaves the sheet
\* as the run before left it, whether the sheet was empty, had its header or
\* had rows before the first run.
C20_SecondRunAppendsNothing ==
    earlier # <<>> =>
        /\ enriched \cap CommittedEarlier = {}
        /\ pc \in {"details", "enrich"} =>
              Range(channel_ids) \cap CommittedEarlier = {}
        /\ calls.update = 0 /\ calls.append = 0
        /\ all_new_channels = <<>>
        /\ sheet = earlier[Len(earlier)].sheet
        /\ pc = "done" => enriched = earlier[Len(earlier)].enriched \ CommittedEarlier

\* the second run ended after a first run that appended rows to an empty
\* sheet and dropped a channel, which the second run enriched again
C20_Witness ==
    /\ Len(earlier) = 1 /\ pc = "done"
    /\ earlier[1].before = <<>>
    /\ earlier[1].committed # {}
    /\ enriched # {}

====
